---- MODULE Spec2Model ----
(***************************************************************************)
(* Ticket checkout of the events application (attendee_checkout.py).       *)
(*                                                                         *)
(* The state is the three MongoDB collections the checkout writes          *)
(* (payments, transactions, tickets), the per-buyer Flask session, and the *)
(* position of every in-flight POST /checkout/complete handler.  Every     *)
(* database call of a handler is one atomic step; the Python between two   *)
(* calls is local to the handler and belongs to the step that follows it.  *)
(* Money is counted in micro-USDC (USDC_DECIMALS = 6).                     *)
(***************************************************************************)
EXTENDS Integers, Sequences, FiniteSets, TLC

\* ------------------------------------------------------------------------
\* Bounds of the model
\* ------------------------------------------------------------------------
MaxReq == 2          \* POST /checkout/complete requests delivered in a run
MaxNow == 2          \* wall-clock readings datetime.now() can return: 0..MaxNow
MaxQty == 2          \* units a helper called on its own is asked for: 1..MaxQty

\* ------------------------------------------------------------------------
\* Program constants
\* ------------------------------------------------------------------------
ACTIVE_NETWORK == "mainnet"

NETS ==
  [mainnet |-> [chain_id |-> 8453,  chain_name |-> "Base"],
   sepolia |-> [chain_id |-> 84532, chain_name |-> "Base Sepolia"]]

USDC_DECIMALS == 6

\* One whole USDC in the unit the model counts money in: 10^USDC_DECIMALS.
Micro == 1000000

\* An address is the text of a candidate payout / payer address, described by
\* what the code looks at: its stripped length and its prefix, plus whether
\* the 40 characters after the prefix are hexadecimal digits.
Addr(name, len, pre0x, hex) ==
  [name |-> name, len |-> len, pre0x |-> pre0x, hex |-> hex]

NoAddr == Addr("", 0, FALSE, FALSE)

DEFAULT_PAYOUT_ADDRESS == Addr("0x98f8_default", 42, TRUE, TRUE)

UserWallet   == Addr("0xAAAA_user", 42, TRUE, TRUE)
OtherWallet  == Addr("0xCCCC_other", 42, TRUE, TRUE)
PayerWallet  == Addr("0x1111_payer", 42, TRUE, TRUE)
EventWallet  == Addr("0xEEEE_event", 42, TRUE, TRUE)
OrgWallet    == Addr("0xBBBB_org", 42, TRUE, TRUE)

\* Texts that are not addresses: "0x" followed by 40 characters that are not
\* all hexadecimal digits, and "0x" followed by too few digits.
NonHexWallet == Addr("0xZZZZ_nonhex", 42, TRUE, FALSE)
ShortWallet  == Addr("0x12_short", 10, TRUE, TRUE)

\* ------------------------------------------------------------------------
\* The read-only collections: events, organizers, users
\* ------------------------------------------------------------------------
None == "None"

\* A sales bound is <<"none">> when the field is unset, <<"date", d>> for the
\* text "YYYY-MM-DD" of day d, <<"iso", t>> for a full ISO timestamp of
\* instant t, or <<"bad">> for a text datetime.fromisoformat rejects.
NoBound == <<"none">>

Tier(name, price, supply, limit, s, e) ==
  [name |-> name, price |-> price, supply |-> supply,
   per_order_limit |-> limit, sales_start |-> s, sales_end |-> e]

\* db.events, keyed by the text of _id.  Tier indices are 0-based in the
\* program; Tiers[k + 1] is tiers[k].
Events ==
  [e1 |-> [status |-> "published", organizer_id |-> "o1",
           payout_address |-> NoAddr, organizer_payout_address |-> NoAddr,
           treasury_address |-> NoAddr, usdc_payout |-> NoAddr,
           wallet_address |-> NoAddr,
           tiers |-> << Tier("General", 10 * Micro, 1, 0, NoBound, NoBound),
                        Tier("Pair",     5 * Micro,  2, 1,
                             <<"iso", 1>>, <<"date", 0>>) >>],
   e2 |-> [status |-> "draft", organizer_id |-> "o1",
           payout_address |-> NoAddr, organizer_payout_address |-> NoAddr,
           treasury_address |-> NoAddr, usdc_payout |-> NoAddr,
           wallet_address |-> NoAddr,
           tiers |-> << Tier("Draft", 10 * Micro, 1, 0, NoBound, NoBound) >>]]

\* Texts that parse as an ObjectId; "e9" parses but names no event.
ValidOids == {"e1", "e2", "e9", "o1"}

PayoutFields(payout, wallet, treasury, usdc, billing, settings) ==
  [payout_address |-> payout, wallet_address |-> wallet,
   treasury_wallet |-> treasury, usdc_wallet |-> usdc,
   billing |-> billing, settings |-> settings]

NoFields == PayoutFields(NoAddr, NoAddr, NoAddr, NoAddr, NoAddr, NoAddr)

\* db.organizers and db.users, keyed by the text of _id.  The organizer "o1"
\* has an organizers document without any wallet and a users document with
\* a wallet_address.
Organizers == [o1 |-> NoFields]
Users == [o1 |-> PayoutFields(NoAddr, UserWallet, NoAddr, NoAddr, NoAddr, NoAddr)]

Buyers == {"u1", "u2"}

\* Instants are counted in ticks; a calendar day has TicksPerDay of them.
TicksPerDay == 2

Times == 0 .. MaxNow

\* ------------------------------------------------------------------------
\* Helpers (datetime / availability)
\* ------------------------------------------------------------------------
\* A date-only text is the first instant of its day for a start bound and
\* the last one for an end bound; a full timestamp is itself.  The result is
\* << >> for Python's None and <<t>> for the instant t.
_parse_sales_bound(val, kind) ==
  IF val[1] = "date"
    THEN IF kind = "end" THEN << val[2] * TicksPerDay + (TicksPerDay - 1) >>
                         ELSE << val[2] * TicksPerDay >>
  ELSE IF val[1] = "iso" THEN << val[2] >>
  ELSE << >>

\* The window test with both comparisons made exclusive.
_tier_sales_open_Exclusive(tier, now_utc) ==
  LET s == _parse_sales_bound(tier.sales_start, "start")
      e == _parse_sales_bound(tier.sales_end, "end")
  IN  IF s # << >> /\ now_utc <= s[1] THEN FALSE
      ELSE IF e # << >> /\ now_utc >= e[1] THEN FALSE
      ELSE TRUE

_tier_sales_open(tier, now_utc) ==
  LET s == _parse_sales_bound(tier.sales_start, "start")
      e == _parse_sales_bound(tier.sales_end, "end")
  IN  IF s # << >> /\ now_utc < s[1] THEN FALSE
      ELSE IF e # << >> /\ now_utc > e[1] THEN FALSE
      ELSE TRUE

\* db.tickets.count_documents({"event_id": ..., "tier_index": ...}) on the
\* collection tks.
CountTickets(tks, event_id, tier_idx) ==
  Cardinality({t \in tks : t.event_id = event_id /\ t.tier_index = tier_idx})

Max(a, b) == IF a >= b THEN a ELSE b

\* The availability without the floor at 0.
_tier_availability_NoFloor(tks, event_id_str, tier_idx, tier) ==
  LET supply == tier.supply
      sold   == CountTickets(tks, event_id_str, tier_idx)
  IN  [supply |-> supply, sold |-> sold,
       available |-> IF supply # 0 THEN supply - sold ELSE 0]

_tier_availability(tks, event_id_str, tier_idx, tier) ==
  LET supply == tier.supply
      sold   == CountTickets(tks, event_id_str, tier_idx)
  IN  [supply |-> supply, sold |-> sold,
       available |-> IF supply # 0 THEN Max(0, supply - sold) ELSE 0]

\* ------------------------------------------------------------------------
\* Payout helpers (event -> organizers -> users -> default)
\* ------------------------------------------------------------------------
\* The address itself when it starts with "0x" and is 42 characters long,
\* else the empty text.  The characters after the prefix are not examined.
_norm_addr(addr) ==
  IF addr.pre0x /\ addr.len = 42 THEN addr ELSE NoAddr

\* The first non-empty text of a sequence of values.
RECURSIVE _pick(_)
_pick(vals) ==
  IF vals = << >> THEN NoAddr
  ELSE IF Head(vals).len > 0 THEN Head(vals)
  ELSE _pick(Tail(vals))

_to_oid(maybe_id) == IF maybe_id \in ValidOids THEN maybe_id ELSE None

\* The first valid address among the payout fields of an organizers / users
\* document, in the order the code reads them.
FirstValidField(doc) ==
  _pick(<< _norm_addr(doc.payout_address), _norm_addr(doc.wallet_address),
           _norm_addr(doc.treasury_wallet), _norm_addr(doc.usdc_wallet),
           _norm_addr(doc.billing), _norm_addr(doc.settings) >>)

Lookup(coll, id) == IF id \in DOMAIN coll THEN coll[id] ELSE NoFields

\* _find_payout_address reading the collections orgs and usrs as db.organizers
\* and db.users.
_find_payout_address_in(ev, orgs, usrs) ==
  LET cand == _pick(<< ev.payout_address, ev.organizer_payout_address,
                       ev.treasury_address, ev.usdc_payout,
                       ev.wallet_address >>)
      oid  == _to_oid(ev.organizer_id)
      org  == FirstValidField(Lookup(orgs, oid))
      user == FirstValidField(Lookup(usrs, oid))
  IN  IF _norm_addr(cand) # NoAddr THEN cand
      ELSE IF oid # None /\ org # NoAddr THEN org
      ELSE IF oid # None /\ user # NoAddr THEN user
      ELSE _norm_addr(DEFAULT_PAYOUT_ADDRESS)

_find_payout_address(ev) == _find_payout_address_in(ev, Organizers, Users)

\* ------------------------------------------------------------------------
\* Request payloads
\* ------------------------------------------------------------------------
NoUid == "anonymous"        \* a request whose session holds no "uid"

Price(event_id, tier_idx) == Events[event_id].tiers[tier_idx + 1].price

\* round(price * qty, USDC_DECIMALS), in micro-USDC.
ExpectedAmount(price, qty) == price * qty

\* The text of an amount is counted in tenths of a micro-USDC (seven
\* decimals), one digit more than the handler keeps.  AmountText(m) is the
\* text of the amount of m micro-USDC.
AmountText(m) == m * 10

\* A text float() rejects.
BadAmountText == -1

\* round(float(amount_u), USDC_DECIMALS) in micro-USDC, or -1 USDC when
\* float() raises.  No text of the model ends in the digit 5, so the
\* nearest micro-USDC is the same in binary and in decimal arithmetic.
PaidAmount(amount_u) ==
  IF amount_u = BadAmountText THEN - Micro
  ELSE (amount_u + 5) \div 10

\* abs(paid - expected) > 1e-6 on IEEE doubles, for an expected amount e of
\* whole USDC up to 60 and a paid amount one micro-USDC below (s = -1) or
\* above (s = 1): the subtraction is inexact and its result falls on either
\* side of 1e-6, depending on the binade of e.
OneMicroExceeds(e, s) ==
  \/ e \in 3 .. 7
  \/ e \in 17 .. 31
  \/ << e, s >> \in {<< 1, -1 >>, << 2, 1 >>, << 8, -1 >>, << 16, 1 >>,
                     << 32, -1 >>}

\* The JSON body of POST /checkout/complete.  A key the client leaves out has
\* the default the handler reads for it: "" / NoAddr, 0, or -1 for tierIdx.
Claim(event_id, tier_idx, qty) ==
  [eventId |-> event_id, tierIdx |-> tier_idx, quantity |-> qty,
   from |-> PayerWallet, to |-> _find_payout_address(Events[event_id]),
   chainId |-> NETS[ACTIVE_NETWORK].chain_id,
   amountUSDC |-> AmountText(ExpectedAmount(Price(event_id, tier_idx), qty)),
   basePaymentId |-> "bp1", baseStatus |-> "succeeded"]

ValidClaim == Claim("e1", 0, 1)

\* Claims for each tier and quantity of the published event.
OrderClaims == {Claim("e1", t, q) : t \in {0, 1}, q \in {1, 2}}

\* The valid claim with one field changed or left out.
DeviantClaims ==
       {[ValidClaim EXCEPT !.from = NoAddr]}
  \cup {[ValidClaim EXCEPT !.to = a] : a \in {NoAddr, OtherWallet}}
  \cup {[ValidClaim EXCEPT !.chainId = c] : c \in {0, NETS.sepolia.chain_id}}
  \cup {[ValidClaim EXCEPT !.amountUSDC = 0]}
  \cup {[ValidClaim EXCEPT !.amountUSDC = @ + AmountText(1)]}
  \cup {[ValidClaim EXCEPT !.basePaymentId = ""]}

\* Claims naming no event, an unparsable id, a draft or an unknown event, a
\* tier out of bounds, or no quantity.
MalformedClaims ==
       {[ValidClaim EXCEPT !.eventId = e] : e \in {"", "zz", "e2", "e9"}}
  \cup {[ValidClaim EXCEPT !.tierIdx = t] : t \in {-1, 2}}
  \cup {[ValidClaim EXCEPT !.quantity = 0]}

Payloads == OrderClaims \cup DeviantClaims \cup MalformedClaims

\* Who sends what: the first buyer sends any payload, a second buyer and a
\* client that is not logged in send the valid claim.
Deliveries ==
  ({"u1"} \X Payloads) \cup ({"u2", NoUid} \X {ValidClaim})

\* ------------------------------------------------------------------------
\* State
\* ------------------------------------------------------------------------
VARIABLES
  payments,       \* db.payments
  transactions,   \* db.transactions
  tickets,        \* db.tickets
  session,        \* session["checkout_current"] of each buyer
  req,            \* the POST /checkout/complete handlers
  call            \* a helper function called on its own: arguments, result

vars == << payments, transactions, tickets, session, req, call >>

Reqs == 1 .. MaxReq

NoQuote == [event_id |-> "", tier_idx |-> -1, quantity |-> 0, unit_price |-> 0,
            amount |-> 0, max_allowed |-> 0, payout |-> NoAddr, chain_id |-> 0]

\* The JSON answer of POST /checkout/complete and its HTTP status.
NoResp == [ok |-> FALSE, error |-> "", code |-> 0, payment_id |-> 0,
           base_payment_id |-> None]

Idle == [pc |-> "idle", uid |-> NoUid, data |-> ValidClaim, i |-> 0,
         resp |-> NoResp]

\* No helper is being called on its own.
NoCall == [fn |-> "", done |-> FALSE]

\* The empty database, nobody at the checkout.
InitStores ==
  /\ payments = {}
  /\ transactions = {}
  /\ tickets = {}
  /\ session = [b \in Buyers |-> NoQuote]
  /\ req = [r \in Reqs |-> Idle]

Init == InitStores /\ call = NoCall

\* ------------------------------------------------------------------------
\* GET /checkout/start
\* ------------------------------------------------------------------------
\* The lookup without the status condition.
FindPublished_AnyStatus(oid) == IF oid \in DOMAIN Events THEN oid ELSE None

\* db.events.find_one({"_id": oid, "status": "published"}): the event id when
\* such a document exists, else None.
FindPublished(oid) ==
  IF oid \in DOMAIN Events /\ Events[oid].status = "published" THEN oid
  ELSE None

\* The most units one order may hold: the tier's per-order limit when it has
\* one, else what is available.
MaxAllowed(per_order_limit, available) ==
  IF per_order_limit > 0 THEN per_order_limit ELSE available

\* The quantity the checkout page is opened with.
ClampQty(qty_req, max_allowed) ==
  LET q0 == IF qty_req # 0 THEN qty_req ELSE 1
      q1 == IF q0 > max_allowed THEN max_allowed ELSE q0
  IN  IF q1 < 1 THEN 1 ELSE q1

\* start() with the availability test placed before the sales-window test.
StartOutcome_CapacityFirst(tks, event_id, tier_idx, qty_req, now) ==
  LET oid == _to_oid(event_id)
      evid == FindPublished(oid)
  IN
  IF oid = None \/ evid = None THEN [kind |-> "404", quote |-> NoQuote]
  ELSE
  LET ev == Events[evid]
  IN
  IF tier_idx < 0 \/ tier_idx >= Len(ev.tiers)
    THEN [kind |-> "bad_tier", quote |-> NoQuote]
  ELSE
  LET tier  == ev.tiers[tier_idx + 1]
      avail == _tier_availability(tks, evid, tier_idx, tier)
      max_allowed == MaxAllowed(tier.per_order_limit, avail.available)
      qty    == ClampQty(qty_req, max_allowed)
      payout == _find_payout_address(ev)
  IN
  IF avail.available <= 0
    THEN [kind |-> "sold_out", quote |-> NoQuote]
  ELSE IF ~ _tier_sales_open(tier, now)
    THEN [kind |-> "window_closed", quote |-> NoQuote]
  ELSE IF payout = NoAddr
    THEN [kind |-> "no_payout", quote |-> NoQuote]
  ELSE [kind |-> "ok",
        quote |-> [event_id |-> event_id, tier_idx |-> tier_idx,
                   quantity |-> qty, unit_price |-> tier.price,
                   amount |-> ExpectedAmount(tier.price, qty),
                   max_allowed |-> max_allowed, payout |-> payout,
                   chain_id |-> NETS[ACTIVE_NETWORK].chain_id]]

\* The outcome of GET /checkout/start for a logged-in buyer: the flash text
\* (or "404"), or "ok" with the quote stashed in the session.
StartOutcome(tks, event_id, tier_idx, qty_req, now) ==
  LET oid == _to_oid(event_id)
      evid == FindPublished(oid)
  IN
  IF oid = None \/ evid = None THEN [kind |-> "404", quote |-> NoQuote]
  ELSE
  LET ev == Events[evid]
  IN
  IF tier_idx < 0 \/ tier_idx >= Len(ev.tiers)
    THEN [kind |-> "bad_tier", quote |-> NoQuote]
  ELSE
  LET tier  == ev.tiers[tier_idx + 1]
      avail == _tier_availability(tks, evid, tier_idx, tier)
      max_allowed == MaxAllowed(tier.per_order_limit, avail.available)
      qty    == ClampQty(qty_req, max_allowed)
      payout == _find_payout_address(ev)
  IN
  IF ~ _tier_sales_open(tier, now)
    THEN [kind |-> "window_closed", quote |-> NoQuote]
  ELSE IF avail.available <= 0
    THEN [kind |-> "sold_out", quote |-> NoQuote]
  ELSE IF payout = NoAddr
    THEN [kind |-> "no_payout", quote |-> NoQuote]
  ELSE [kind |-> "ok",
        quote |-> [event_id |-> event_id, tier_idx |-> tier_idx,
                   quantity |-> qty, unit_price |-> tier.price,
                   amount |-> ExpectedAmount(tier.price, qty),
                   max_allowed |-> max_allowed, payout |-> payout,
                   chain_id |-> NETS[ACTIVE_NETWORK].chain_id]]

Start(b, event_id, tier_idx, qty_req, now) ==
  LET out == StartOutcome(tickets, event_id, tier_idx, qty_req, now)
  IN  /\ session' = IF out.kind = "ok"
                      THEN [session EXCEPT ![b] = out.quote]
                      ELSE session
      /\ UNCHANGED << payments, transactions, tickets, req, call >>

\* ------------------------------------------------------------------------
\* POST /checkout/complete
\* ------------------------------------------------------------------------
Abs(x) == IF x < 0 THEN -x ELSE x

\* expected_amount > 0 and abs(paid_amount - expected_amount) > 1e-6, both
\* amounts already rounded to micro-USDC and held as doubles.  Two micro-USDC
\* or more always exceed 1e-6; exactly one does or does not, as the doubles
\* have it.
AmountMismatch(paid_amount, expected_amount) ==
  /\ expected_amount > 0
  /\ \/ Abs(paid_amount - expected_amount) > 1
     \/ /\ Abs(paid_amount - expected_amount) = 1
        /\ OneMicroExceeds(expected_amount \div Micro,
                           paid_amount - expected_amount)

\* Lines 355-366: whether the handler answers amount_mismatch for a claim of
\* qty units at the given unit price that states the amount amount_u.
AmountRejected(price, qty, amount_u) ==
  AmountMismatch(PaidAmount(amount_u), ExpectedAmount(price, qty))

Err(error, code) ==
  [ok |-> FALSE, error |-> error, code |-> code, payment_id |-> 0,
   base_payment_id |-> None]

\* A handler that has answered keeps nothing but its answer.
Done(resp) == [Idle EXCEPT !.pc = "done", !.resp = resp]

\* The checks of the handler up to the first insert: the error response, or
\* NoResp when the handler goes on to write.
CheckClaim(tks, uid, data) ==
  IF uid = NoUid THEN Err("not_logged_in", 401)
  ELSE IF ~ (data.eventId # "" /\ data.quantity > 0 /\ data.chainId # 0
             /\ data.to.len > 0)
    THEN Err("invalid_payload", 400)
  ELSE IF _to_oid(data.eventId) = None THEN Err("bad_event", 400)
  ELSE IF FindPublished(_to_oid(data.eventId)) = None
    THEN Err("not_found", 404)
  ELSE
  LET ev == Events[data.eventId]
  IN
  IF data.tierIdx < 0 \/ data.tierIdx >= Len(ev.tiers)
    THEN Err("bad_tier", 400)
  ELSE
  LET tier  == ev.tiers[data.tierIdx + 1]
      avail == _tier_availability(tks, data.eventId, data.tierIdx, tier)
  IN
  IF data.quantity > avail.available THEN Err("sold_out", 409)
  ELSE IF AmountRejected(tier.price, data.quantity, data.amountUSDC)
    THEN Err("amount_mismatch", 400)
  ELSE NoResp

\* The handler with the payment insert moved above the amount check: a claim
\* refused for its amount has already left a payment behind.
CompleteCheck_InsertFirst(r, uid, data) ==
  /\ req[r].pc = "idle"
  /\ \A q \in Reqs : q < r => req[q].pc # "idle"
  /\ LET resp == CheckClaim(tickets, uid, data)
     IN  /\ req' = [req EXCEPT ![r] =
                      IF resp = NoResp
                        THEN [pc |-> "pay", uid |-> uid, data |-> data, i |-> 0,
                              resp |-> NoResp]
                        ELSE Done(resp)]
         /\ payments' = IF resp.error = "amount_mismatch"
                          THEN payments \cup {[_id |-> r, attendee_id |-> uid]}
                          ELSE payments
  /\ UNCHANGED << transactions, tickets, session, call >>

\* Lines 317-366: the request is read and checked against the events and the
\* current ticket count.
CompleteCheck(r, uid, data) ==
  /\ req[r].pc = "idle"
  /\ \A q \in Reqs : q < r => req[q].pc # "idle"
  /\ LET resp == CheckClaim(tickets, uid, data)
     IN  req' = [req EXCEPT ![r] =
                   IF resp = NoResp
                     THEN [pc |-> "pay", uid |-> uid, data |-> data, i |-> 0,
                           resp |-> NoResp]
                     ELSE Done(resp)]
  /\ UNCHANGED << payments, transactions, tickets, session, call >>

\* A payment document whose amount is the unit price, not price x quantity.
PayDoc_UnitAmount(r) ==
  LET d == req[r].data
      price == Price(d.eventId, d.tierIdx)
  IN  [_id |-> r, attendee_id |-> req[r].uid,
       organizer_id |-> Events[d.eventId].organizer_id,
       event_id |-> d.eventId, tier_index |-> d.tierIdx,
       quantity |-> d.quantity, unit_price |-> price,
       amount |-> price, currency |-> "USDC",
       status |-> IF d.baseStatus # "" THEN "paid" ELSE "onchain_confirmed",
       method |-> "base_pay", payer |-> d.from, pay_to |-> d.to,
       chain_id |-> d.chainId,
       base_payment_id |-> IF d.basePaymentId # "" THEN d.basePaymentId
                           ELSE None]

\* A payment document that stores the amount the client stated.
PayDoc_ClaimedAmount(r) ==
  [PayDoc_UnitAmount(r) EXCEPT !.amount = PaidAmount(req[r].data.amountUSDC)]

\* The document of db.payments the handler r writes.
PayDoc(r) ==
  LET d == req[r].data
      price == Price(d.eventId, d.tierIdx)
  IN  [_id |-> r, attendee_id |-> req[r].uid,
       organizer_id |-> Events[d.eventId].organizer_id,
       event_id |-> d.eventId, tier_index |-> d.tierIdx,
       quantity |-> d.quantity, unit_price |-> price,
       amount |-> ExpectedAmount(price, d.quantity), currency |-> "USDC",
       status |-> IF d.baseStatus # "" THEN "paid" ELSE "onchain_confirmed",
       method |-> "base_pay", payer |-> d.from, pay_to |-> d.to,
       chain_id |-> d.chainId,
       base_payment_id |-> IF d.basePaymentId # "" THEN d.basePaymentId
                           ELSE None]

\* The document of db.transactions the handler r writes.
TxDoc(r) ==
  LET d == req[r].data
      price == Price(d.eventId, d.tierIdx)
  IN  [_id |-> r, kind |-> "ticket_purchase", attendee_id |-> req[r].uid,
       organizer_id |-> Events[d.eventId].organizer_id,
       event_id |-> d.eventId, tier_index |-> d.tierIdx,
       quantity |-> d.quantity,
       amount |-> ExpectedAmount(price, d.quantity), currency |-> "USDC",
       to |-> d.to, from |-> d.from,
       base_payment_id |-> IF d.basePaymentId # "" THEN d.basePaymentId
                           ELSE None,
       chain_id |-> d.chainId, payment_id |-> r]

\* The k-th document of db.tickets the handler r writes.
TicketDoc(r, k) ==
  LET d == req[r].data
  IN  [_id |-> << r, k >>, event_id |-> d.eventId, tier_index |-> d.tierIdx,
       attendee_id |-> req[r].uid, price |-> Price(d.eventId, d.tierIdx),
       payment_id |-> r, status |-> "valid"]

\* Lines 368-393: db.payments.insert_one(pay_doc).
CompletePay(r) ==
  /\ req[r].pc = "pay"
  /\ payments' = payments \cup {PayDoc(r)}
  /\ req' = [req EXCEPT ![r].pc = "tx"]
  /\ UNCHANGED << transactions, tickets, session, call >>

\* Lines 396-413: db.transactions.insert_one({...}).
CompleteTx(r) ==
  /\ req[r].pc = "tx"
  /\ transactions' = transactions \cup {TxDoc(r)}
  /\ req' = [req EXCEPT ![r].pc = "tickets"]
  /\ UNCHANGED << payments, tickets, session, call >>

\* A loop that stops one ticket short.
TicketRange_Short(qty) == qty - 1

\* The loop making one pass too many.
TicketRange_Extra(qty) == qty + 1

\* The number of passes of the loop that issues the tickets.
TicketRange(qty) == qty

\* Lines 416-425: one pass of the ticket loop, db.tickets.insert_one({...}).
CompleteTicket(r) ==
  /\ req[r].pc = "tickets"
  /\ req[r].i < TicketRange(req[r].data.quantity)
  /\ tickets' = tickets \cup {TicketDoc(r, req[r].i)}
  /\ req' = [req EXCEPT ![r].i = @ + 1]
  /\ UNCHANGED << payments, transactions, session, call >>

\* Lines 427-432: the loop is over and the handler answers ok with the
\* payment id.
CompleteReturn(r) ==
  /\ req[r].pc = "tickets"
  /\ req[r].i >= TicketRange(req[r].data.quantity)
  /\ req' = [req EXCEPT ![r] =
               Done([ok |-> TRUE, error |-> "", code |-> 200,
                     payment_id |-> r,
                     base_payment_id |-> PayDoc(r).base_payment_id])]
  /\ UNCHANGED << payments, transactions, tickets, session, call >>

\* A handler that takes its payment back when a later insert raises.
CompleteFail_DropPayment(r) ==
  /\ \/ req[r].pc \in {"pay", "tx"}
     \/ req[r].pc = "tickets" /\ req[r].i < TicketRange(req[r].data.quantity)
  /\ req' = [req EXCEPT ![r] = Done(Err("server_error", 500))]
  /\ payments' = {p \in payments : p._id # r}
  /\ UNCHANGED << transactions, tickets, session, call >>

\* An insert_one raises (the database is unreachable or times out): the
\* handler is abandoned where it stands and the client gets a 500.
CompleteFail(r) ==
  /\ \/ req[r].pc \in {"pay", "tx"}
     \/ req[r].pc = "tickets" /\ req[r].i < TicketRange(req[r].data.quantity)
  /\ req' = [req EXCEPT ![r] = Done(Err("server_error", 500))]
  /\ UNCHANGED << payments, transactions, tickets, session, call >>

\* The query strings of GET /checkout/start with the instant they arrive at:
\* each tier of the published event with no, one or too many units asked
\* for, and requests naming a draft event, an unparsable id or a tier out
\* of bounds.
StartRequests ==
       ({"e1"} \X {0} \X {0, 1, 3} \X {0})
  \cup ({"e1"} \X {1} \X {1, 3} \X Times)
  \cup ({"e2", "zz"} \X {0} \X {1} \X {0})
  \cup ({"e1"} \X {-1, 2} \X {1} \X {0})

Next ==
  \/ \E b \in Buyers, s \in StartRequests : Start(b, s[1], s[2], s[3], s[4])
  \/ \E r \in Reqs, d \in Deliveries : CompleteCheck(r, d[1], d[2])
  \/ \E r \in Reqs : CompletePay(r)
  \/ \E r \in Reqs : CompleteTx(r)
  \/ \E r \in Reqs : CompleteTicket(r)
  \/ \E r \in Reqs : CompleteReturn(r)
  \/ \E r \in Reqs : CompleteFail(r)

Spec == Init /\ [][Next]_vars

\* The completion handlers alone.  No step of theirs reads the session, the
\* only state GET /checkout/start writes.
NextComplete ==
  \/ \E r \in Reqs, d \in Deliveries : CompleteCheck(r, d[1], d[2])
  \/ \E r \in Reqs : CompletePay(r)
  \/ \E r \in Reqs : CompleteTx(r)
  \/ \E r \in Reqs : CompleteTicket(r)
  \/ \E r \in Reqs : CompleteReturn(r)
  \/ \E r \in Reqs : CompleteFail(r)

SpecComplete == Init /\ [][NextComplete]_vars

\* N = MaxReq buyers each try to buy one unit of the first tier of the
\* published event with a valid claim, and no insert fails.
NextRace ==
  \/ \E b \in Buyers, s \in StartRequests : Start(b, s[1], s[2], s[3], s[4])
  \/ \E r \in Reqs, b \in Buyers : CompleteCheck(r, b, ValidClaim)
  \/ \E r \in Reqs : CompletePay(r)
  \/ \E r \in Reqs : CompleteTx(r)
  \/ \E r \in Reqs : CompleteTicket(r)
  \/ \E r \in Reqs : CompleteReturn(r)

SpecRace == Init /\ [][NextRace]_vars

\* The completion callback of one purchase of two units of the second tier,
\* delivered up to MaxReq times; any insert may fail.
CallbackClaim == Claim("e1", 1, 2)

NextRetry ==
  \/ \E b \in Buyers, s \in StartRequests : Start(b, s[1], s[2], s[3], s[4])
  \/ \E r \in Reqs : CompleteCheck(r, "u1", CallbackClaim)
  \/ \E r \in Reqs : CompletePay(r)
  \/ \E r \in Reqs : CompleteTx(r)
  \/ \E r \in Reqs : CompleteTicket(r)
  \/ \E r \in Reqs : CompleteReturn(r)
  \/ \E r \in Reqs : CompleteFail(r)

SpecRetry == Init /\ [][NextRetry]_vars

TypeOK ==
  /\ \A p \in payments : p._id \in Reqs
  /\ \A t \in tickets : t.payment_id \in Reqs
  /\ \A r \in Reqs : req[r].pc \in {"idle", "pay", "tx", "tickets", "done"}

\* ------------------------------------------------------------------------
\* Observations
\* ------------------------------------------------------------------------
\* The (event, tier index) pairs of the published events.
TierKeys ==
  UNION {{<< e, k >> : k \in 0 .. Len(Events[e].tiers) - 1} :
           e \in {x \in DOMAIN Events : Events[x].status = "published"}}

\* Units sold of a tier: the tickets issued for it.
Sold(key) == CountTickets(tickets, key[1], key[2])

Supply(key) == Events[key[1]].tiers[key[2] + 1].supply

Answered(r) == req[r].pc = "done"
AnsweredOk(r) == req[r].pc = "done" /\ req[r].resp.ok
AnsweredErr(r, error) ==
  req[r].pc = "done" /\ ~ req[r].resp.ok /\ req[r].resp.error = error

\* No handler is between its first check and its answer.
Quiescent == \A r \in Reqs : req[r].pc \in {"idle", "done"}

TicketsOf(pid) == {t \in tickets : t.payment_id = pid}
PaymentsWithId(k) == {p \in payments : p.base_payment_id = k}

\* ------------------------------------------------------------------------
\* Claims
\* ------------------------------------------------------------------------
\* C1: in every reachable state, for every tier, the units sold (tickets
\* issued) are between 0 and the tier's supply.
C1_SoldWithinSupply ==
  \A key \in TierKeys : 0 <= Sold(key) /\ Sold(key) <= Supply(key)

\* C2: when N >= S buyers each attempt to buy one unit of a tier of supply S
\* with an otherwise valid claim, then once all have been answered exactly S
\* attempts have succeeded and the other N - S were answered sold_out.
C2_ExactlySupplySucceed ==
  LET S == Supply(<< "e1", 0 >>)
  IN  (MaxReq >= S /\ \A r \in Reqs : Answered(r)) =>
        /\ Cardinality({r \in Reqs : AnsweredOk(r)}) = S
        /\ Cardinality({r \in Reqs : AnsweredErr(r, "sold_out")}) = MaxReq - S

\* C3: once no completion is in progress (and none was cut short by a failed
\* insert), each external payment identifier has at most one Payment, and
\* the tickets issued for that identifier are as many as the quantity
\* purchased.
C3_OnePaymentPerExternalId ==
  (Quiescent /\ \A r \in Reqs : ~ AnsweredErr(r, "server_error")) =>
    \A p \in payments :
      p.base_payment_id # None =>
        /\ Cardinality(PaymentsWithId(p.base_payment_id)) <= 1
        /\ Cardinality(UNION {TicketsOf(x._id) :
                                x \in PaymentsWithId(p.base_payment_id)})
             = p.quantity

\* C4: two completions that succeed with the same external payment
\* identifier and the same claim are answered with the same Payment
\* identifier (the second one settles nothing anew).
C4_IdempotentSettle ==
  \A r1, r2 \in Reqs :
    (/\ AnsweredOk(r1) /\ AnsweredOk(r2)
     /\ req[r1].resp.base_payment_id # None
     /\ req[r1].resp.base_payment_id = req[r2].resp.base_payment_id
     /\ \E p1, p2 \in payments :
          /\ p1._id = req[r1].resp.payment_id
          /\ p2._id = req[r2].resp.payment_id
          /\ [p1 EXCEPT !._id = 0] = [p2 EXCEPT !._id = 0])
    => req[r1].resp.payment_id = req[r2].resp.payment_id

\* C5: in every state, the tickets that reference a Payment are none or as
\* many as the Payment's quantity.
C5_TicketsAllOrNothing ==
  \A p \in payments :
    Cardinality(TicketsOf(p._id)) \in {0, p.quantity}

\* C6: when a delivery of a completion callback failed partway and a
\* delivery of the same callback has succeeded, and no delivery is in
\* progress, the stores hold exactly one Payment, one Transaction and
\* quantity Tickets.
C6_RetryReachesCommitted ==
  (/\ Quiescent
   /\ \E r \in Reqs : AnsweredErr(r, "server_error")
   /\ \E r \in Reqs : AnsweredOk(r))
  => /\ Cardinality(payments) = 1
     /\ Cardinality(transactions) = 1
     /\ Cardinality(tickets) = CallbackClaim.quantity

\* C7: a completion that answers ok for a claim of quantity q has written
\* exactly one Payment, exactly one Transaction that references the Payment
\* and repeats its event, tier, quantity and amount, and exactly q Tickets,
\* each valid and each referencing the Payment.
SettledAs(pays, txs, tks, d, pid) ==
  /\ \E p \in pays :
       /\ {x \in pays : x._id = pid} = {p}
       /\ p.event_id = d.eventId /\ p.tier_index = d.tierIdx
       /\ p.quantity = d.quantity
       /\ \E t \in txs :
            /\ {x \in txs : x.payment_id = pid} = {t}
            /\ t.event_id = p.event_id /\ t.tier_index = p.tier_index
            /\ t.quantity = p.quantity /\ t.amount = p.amount
  /\ Cardinality({t \in tks : t.payment_id = pid}) = d.quantity
  /\ \A t \in {x \in tks : x.payment_id = pid} :
       /\ t.status = "valid"
       /\ t.event_id = d.eventId /\ t.tier_index = d.tierIdx

C7_SettlementWrites ==
  [][\A r \in Reqs :
       (req[r].pc = "tickets" /\ AnsweredOk(r)') =>
         SettledAs(payments', transactions', tickets', req[r].data,
                   req'[r].resp.payment_id)]_vars

\* A completion of two units has answered ok.
C7_Witness ==
  \E r \in Reqs :
    /\ AnsweredOk(r)
    /\ Cardinality(TicketsOf(req[r].resp.payment_id)) = 2

\* C8: a Payment is written only while the session of its buyer holds a
\* quote for the same event, tier and quantity.
C8_PaymentNeedsQuote ==
  [][\A p \in payments' \ payments :
       /\ p.attendee_id \in Buyers
       /\ session[p.attendee_id] # NoQuote
       /\ session[p.attendee_id].event_id = p.event_id
       /\ session[p.attendee_id].tier_idx = p.tier_index
       /\ session[p.attendee_id].quantity = p.quantity]_vars

\* C9: no Payment is written for a claim whose paid-to address differs from
\* the payout address resolved for the event.
C9_RecipientChecked ==
  \A p \in payments : p.pay_to = _find_payout_address(Events[p.event_id])

\* C10: no Payment is written for a claim whose chain id differs from the
\* chain id of the configured network.
C10_NetworkChecked ==
  \A p \in payments : p.chain_id = NETS[ACTIVE_NETWORK].chain_id

\* ------------------------------------------------------------------------
\* The amount check, called on its own
\* ------------------------------------------------------------------------
\* What the stated amount differs from the expected one by, in tenths of a
\* micro-USDC.
AmountDeltas == {-24, -16, -14, -10, -6, -4, 0, 4, 6, 10, 14, 16, 24}

AmountCalls ==
  {[fn |-> "amount_check", done |-> FALSE, price |-> p, qty |-> q,
    amount_u |-> a, rejected |-> FALSE] :
     p \in {0, 5 * Micro, 10 * Micro}, q \in 1 .. MaxQty,
     a \in {AmountText(0) + d : d \in {x \in AmountDeltas : x >= 0}}
           \cup {BadAmountText}} \cup
  {[fn |-> "amount_check", done |-> FALSE, price |-> p, qty |-> q,
    amount_u |-> AmountText(ExpectedAmount(p, q)) + d, rejected |-> FALSE] :
     p \in {5 * Micro, 10 * Micro}, q \in 1 .. MaxQty, d \in AmountDeltas}

InitAmount == InitStores /\ call \in AmountCalls

CallAmountCheck ==
  /\ call.fn = "amount_check" /\ ~ call.done
  /\ call' = [call EXCEPT !.done = TRUE,
                          !.rejected = AmountRejected(call.price, call.qty,
                                                      call.amount_u)]
  /\ UNCHANGED << payments, transactions, tickets, session, req >>

NextAmount == CallAmountCheck

SpecAmount == InitAmount /\ [][NextAmount]_vars

\* C11: a claim for a priced tier is rejected with amount_mismatch exactly
\* when the amount it states differs from the expected amount by more than
\* 1e-6 USDC.
C11_AmountTolerance ==
  (/\ call.fn = "amount_check" /\ call.done
   /\ call.amount_u # BadAmountText
   /\ ExpectedAmount(call.price, call.qty) > 0)
  => (call.rejected <=>
        Abs(call.amount_u - AmountText(ExpectedAmount(call.price, call.qty)))
          > AmountText(1))

\* C12: in every reachable state, the amount of every Payment is its own
\* unit price times its own quantity, rounded to 6 decimals.
C12_AmountIsPriceTimesQuantity ==
  \A p \in payments : p.amount = ExpectedAmount(p.unit_price, p.quantity)

\* A Payment for two units of a priced tier has been written.
C12_Witness ==
  \E p \in payments : p.quantity = 2 /\ p.unit_price > 0

\* C13: in every reachable state, no Payment stems from a completion claim
\* that lacked its payer address or its external payment identifier; such a
\* claim is refused with invalid_payload before anything is written.
C13_RequiredFieldsPresent ==
  \A p \in payments : p.payer # NoAddr /\ p.base_payment_id # None

\* The error codes a completion request is specified to answer with.
ListedErrors ==
  {"invalid_payload", "bad_event", "not_found", "bad_tier", "sold_out",
   "amount_mismatch", "network_mismatch", "recipient_mismatch", "quote_expired"}

\* C14: a completion request that answers one of the listed errors does so
\* before it has written anything, and the step that answers leaves the
\* payments, the transactions and the tickets (hence every sold count) as
\* they were.
C14_ErrorsWriteNothing ==
  [][\A r \in Reqs :
       (~ Answered(r) /\ Answered(r)' /\ req'[r].resp.error \in ListedErrors)
         => /\ req[r].pc = "idle"
            /\ payments' = payments
            /\ transactions' = transactions
            /\ tickets' = tickets]_vars

\* A request has been refused as sold out while tickets of earlier requests
\* are in the store, and another for its amount.
C14_Witness ==
  /\ tickets # {}
  /\ \E r \in Reqs : AnsweredErr(r, "sold_out") \/ AnsweredErr(r, "amount_mismatch")

\* The per-order limit of the tier a quote or a payment is for.
LimitOf(event_id, tier_idx) == Events[event_id].tiers[tier_idx + 1].per_order_limit

\* C15: in every reachable state, no quote and no Payment for a tier with a
\* per-order limit L > 0 has a quantity above L.
C15_PerOrderLimit ==
  /\ \A b \in Buyers :
       (session[b] # NoQuote /\ LimitOf(session[b].event_id, session[b].tier_idx) > 0)
         => session[b].quantity <= LimitOf(session[b].event_id, session[b].tier_idx)
  /\ \A p \in payments :
       LimitOf(p.event_id, p.tier_index) > 0
         => p.quantity <= LimitOf(p.event_id, p.tier_index)

\* ------------------------------------------------------------------------
\* _find_payout_address called on its own, over varied documents
\* ------------------------------------------------------------------------
\* What a payout field of a document may hold: nothing, an address, or a text
\* that is not one.
FieldChoices(valid) == {NoAddr, valid, NonHexWallet, ShortWallet}

\* Event documents: e1 with its payout_address and wallet_address varied, and
\* an organizer_id that is an ObjectId or is not.
PayoutEvents ==
  {[Events["e1"] EXCEPT !.payout_address = a, !.wallet_address = w,
                        !.organizer_id = o] :
     a \in FieldChoices(EventWallet), w \in FieldChoices(EventWallet),
     o \in {"o1", "zz"}}

PayoutCalls ==
  {[fn |-> "find_payout", done |-> FALSE, ev |-> ev,
    orgs |-> [o1 |-> [NoFields EXCEPT !.payout_address = oa, !.settings = os]],
    usrs |-> [o1 |-> [NoFields EXCEPT !.wallet_address = uw]],
    result |-> NoAddr] :
     ev \in PayoutEvents, oa \in FieldChoices(OrgWallet),
     os \in FieldChoices(OrgWallet), uw \in FieldChoices(UserWallet)}

InitPayout == InitStores /\ call \in PayoutCalls

CallFindPayout ==
  /\ call.fn = "find_payout" /\ ~ call.done
  /\ call' = [call EXCEPT !.done = TRUE,
                          !.result = _find_payout_address_in(call.ev, call.orgs,
                                                             call.usrs)]
  /\ UNCHANGED << payments, transactions, tickets, session, req >>

NextPayout == CallFindPayout

SpecPayout == InitPayout /\ [][NextPayout]_vars

\* A syntactically valid address: "0x" followed by exactly 40 hexadecimal
\* characters.
ValidAddress(a) == a.pre0x /\ a.len = 42 /\ a.hex

\* The first valid address of a sequence of texts, NoAddr when there is none.
RECURSIVE FirstValid(_)
FirstValid(vals) ==
  IF vals = << >> THEN NoAddr
  ELSE IF ValidAddress(Head(vals)) THEN Head(vals)
  ELSE FirstValid(Tail(vals))

EventAddrs(ev) ==
  << ev.payout_address, ev.organizer_payout_address, ev.treasury_address,
     ev.usdc_payout, ev.wallet_address >>

DocAddrs(doc) ==
  << doc.payout_address, doc.wallet_address, doc.treasury_wallet,
     doc.usdc_wallet, doc.billing, doc.settings >>

\* The address of the first of the four sources that holds a valid one.
FirstSourceAddress(ev, orgs, usrs) ==
  FirstValid(<< FirstValid(EventAddrs(ev)),
                FirstValid(DocAddrs(Lookup(orgs, _to_oid(ev.organizer_id)))),
                FirstValid(DocAddrs(Lookup(usrs, _to_oid(ev.organizer_id)))),
                DEFAULT_PAYOUT_ADDRESS >>)

\* C16: payout resolution returns the address of the first source, in the
\* order event, organizer record, user account, global fallback, that holds
\* a valid address.
C16_PayoutFallbackOrder ==
  (call.fn = "find_payout" /\ call.done)
    => call.result = FirstSourceAddress(call.ev, call.orgs, call.usrs)

\* C17: every address payout resolution returns is "0x" followed by exactly
\* 40 hexadecimal characters.
C17_PayoutAddressValid ==
  (call.fn = "find_payout" /\ call.done) => ValidAddress(call.result)

\* ------------------------------------------------------------------------
\* The quantity clamp of start() called on its own
\* ------------------------------------------------------------------------
\* Requested quantities (absent or 0, negative, small, large), per-order
\* limits (0 = none) and positive availabilities.
ClampCalls ==
  {[fn |-> "clamp", done |-> FALSE, qty_req |-> r, per_order_limit |-> l,
    available |-> a, qty |-> 0] :
     r \in -1 .. MaxQty + 3, l \in 0 .. MaxQty + 2, a \in 1 .. MaxQty + 2}

InitClamp == InitStores /\ call \in ClampCalls

CallClamp ==
  /\ call.fn = "clamp" /\ ~ call.done
  /\ call' = [call EXCEPT !.done = TRUE,
                          !.qty = ClampQty(call.qty_req,
                                           MaxAllowed(call.per_order_limit,
                                                      call.available))]
  /\ UNCHANGED << payments, transactions, tickets, session, req >>

NextClamp == CallClamp

SpecClamp == InitClamp /\ [][NextClamp]_vars

Min(a, b) == IF a <= b THEN a ELSE b

\* C19: for requested quantity r, per-order limit L and availability A >= 1,
\* the quote quantity is max(1, min(r, (L if L > 0 else A), A)), and it never
\* exceeds A.
C19_QuoteQuantityClamp ==
  (call.fn = "clamp" /\ call.done)
    => /\ call.qty =
            Max(1, Min(Min(call.qty_req,
                           IF call.per_order_limit > 0 THEN call.per_order_limit
                           ELSE call.available),
                       call.available))
       /\ call.qty <= call.available

\* The availability of a tier as any buyer's next request computes it.
Available(tks, key) ==
  _tier_availability(tks, key[1], key[2],
                     Events[key[1]].tiers[key[2] + 1]).available

\* C20: a step that creates a quote for q units of a tier reduces the
\* availability of that tier seen by every other buyer by q.
C20_QuoteHoldsInventory ==
  [][\A b \in Buyers :
       (session'[b] # session[b] /\ session'[b] # NoQuote)
         => LET key == << session'[b].event_id, session'[b].tier_idx >>
            IN  Available(tickets', key)
                  = Available(tickets, key) - session'[b].quantity]_vars

\* ------------------------------------------------------------------------
\* A failed completion attempt followed by a purchase of another buyer
\* ------------------------------------------------------------------------
\* The valid claim of the first buyer with the amount left out.
UnderpaidClaim == [ValidClaim EXCEPT !.amountUSDC = 0]

\* The first buyer opens the checkout of the last unit of the first tier and
\* then sends a claim with a wrong amount; the second buyer browses and buys
\* the same unit with a valid claim.  No insert fails.
NextReserve ==
  \/ Start("u1", ValidClaim.eventId, ValidClaim.tierIdx, ValidClaim.quantity, 0)
  \/ \E s \in StartRequests : Start("u2", s[1], s[2], s[3], s[4])
  \/ \E r \in Reqs : session["u1"] # NoQuote /\ CompleteCheck(r, "u1", UnderpaidClaim)
  \/ \E r \in Reqs : CompleteCheck(r, "u2", ValidClaim)
  \/ \E r \in Reqs : CompletePay(r)
  \/ \E r \in Reqs : CompleteTx(r)
  \/ \E r \in Reqs : CompleteTicket(r)
  \/ \E r \in Reqs : CompleteReturn(r)

SpecReserve == Init /\ [][NextReserve]_vars

\* C21: once an attempt of the first buyer on their open quote has failed
\* verification, the units of the quote stay available to that buyer, so
\* that the retry cannot be refused as sold out, whatever other buyers
\* bought in between.
C21_FailedAttemptKeepsInventory ==
  (/\ session["u1"] # NoQuote
   /\ \E r \in Reqs : AnsweredErr(r, "amount_mismatch"))
  => Available(tickets, << session["u1"].event_id, session["u1"].tier_idx >>)
       >= session["u1"].quantity

\* ------------------------------------------------------------------------
\* _tier_availability called on its own, over varied ticket collections
\* ------------------------------------------------------------------------
\* A row of db.tickets as complete() writes it, with the status it has now:
\* "valid" as written, or "cancelled" / "refunded" once a refund or
\* cancellation outside the checkout has changed it.
StoredTicket(k, tier_idx, status) ==
  [_id |-> << 0, k >>, event_id |-> "e1", tier_index |-> tier_idx,
   attendee_id |-> "u1", price |-> Price("e1", tier_idx), payment_id |-> 0,
   status |-> status]

\* Collections holding n valid and c cancelled tickets of the first tier and
\* m valid tickets of the second.
TicketStores ==
  {{StoredTicket(k, 0, "valid") : k \in 1 .. n}
     \cup {StoredTicket(MaxQty + 1 + k, 0, "cancelled") : k \in 1 .. c}
     \cup {StoredTicket(2 * MaxQty + 2 + k, 1, "valid") : k \in 1 .. m} :
     n \in 0 .. MaxQty + 1, c \in 0 .. MaxQty, m \in 0 .. 1}

\* Calls for the first tier of e1 with its supply set to 0 (none), or more.
AvailCalls ==
  {[fn |-> "availability", done |-> FALSE, tier_idx |-> 0,
    tier |-> [Events["e1"].tiers[1] EXCEPT !.supply = sup],
    result |-> [supply |-> 0, sold |-> 0, available |-> 0]] :
     sup \in 0 .. MaxQty}

InitAvail ==
  /\ payments = {}
  /\ transactions = {}
  /\ tickets \in TicketStores
  /\ session = [b \in Buyers |-> NoQuote]
  /\ req = [r \in Reqs |-> Idle]
  /\ call \in AvailCalls

CallAvailability ==
  /\ call.fn = "availability" /\ ~ call.done
  /\ call' = [call EXCEPT !.done = TRUE,
                          !.result = _tier_availability(tickets, "e1",
                                                        call.tier_idx, call.tier)]
  /\ UNCHANGED << payments, transactions, tickets, session, req >>

NextAvail == CallAvailability

SpecAvail == InitAvail /\ [][NextAvail]_vars

\* The tickets of a tier that are not cancelled.
NonCancelled(tks, event_id, tier_idx) ==
  {t \in tks : t.event_id = event_id /\ t.tier_index = tier_idx
               /\ t.status # "cancelled"}

\* C22: the sold count availability is computed from is the number of
\* tickets of the tier that are not cancelled.
C22_SoldCountsNonCancelled ==
  (call.fn = "availability" /\ call.done)
    => call.result.sold = Cardinality(NonCancelled(tickets, "e1", call.tier_idx))

\* C23: the availability computed for a tier is max(0, supply - sold), it is
\* 0 when the supply is 0, and the computation changes no stored state.
C23_AvailabilityFloored ==
  [][(call.fn = "availability" /\ ~ call.done /\ call'.done)
       => /\ call'.result.supply = call.tier.supply
          /\ call'.result.available
               = Max(0, call.tier.supply - call'.result.sold)
          /\ (call.tier.supply = 0 => call'.result.available = 0)
          /\ UNCHANGED << payments, transactions, tickets, session >>]_vars

\* The availability of an oversold tier has been computed, and it is 0.
C23_Witness ==
  /\ call.fn = "availability" /\ call.done
  /\ call.result.sold > call.tier.supply
  /\ call.result.available = 0

\* ------------------------------------------------------------------------
\* One buyer's start and completion requests for a given event and tier,
\* next to a purchase of another buyer
\* ------------------------------------------------------------------------
\* What the first buyer asks for: a published, a draft, an unknown or an
\* unparsable event id, a tier index inside or outside the tier list, and
\* the time of the request.
GateCalls ==
  {[fn |-> "gate", done |-> FALSE, event_id |-> ev, tier_idx |-> t,
    now |-> n, kind |-> ""] :
     ev \in {"e1", "e2", "e9", "zz"}, t \in {-1, 0, 1, 2}, n \in Times}

\* The completion claim the first buyer sends for the same event and tier.
GateClaim == [ValidClaim EXCEPT !.eventId = call.event_id,
                                !.tierIdx = call.tier_idx]

InitGate == InitStores /\ call \in GateCalls

\* GET /checkout/start of the first buyer, with its outcome noted.
CallStart ==
  /\ call.fn = "gate" /\ ~ call.done
  /\ LET out == StartOutcome(tickets, call.event_id, call.tier_idx, 1, call.now)
     IN  /\ session' = IF out.kind = "ok"
                         THEN [session EXCEPT !["u1"] = out.quote]
                         ELSE session
         /\ call' = [call EXCEPT !.done = TRUE, !.kind = out.kind]
  /\ UNCHANGED << payments, transactions, tickets, req >>

\* Request 1 is the other buyer's purchase of the first tier's only unit or
\* of both units of the second tier; the later requests are the first
\* buyer's.
NextGate ==
  \/ CallStart
  \/ \E c \in {ValidClaim, CallbackClaim} : CompleteCheck(1, "u2", c)
  \/ \E r \in Reqs \ {1} : CompleteCheck(r, "u1", GateClaim)
  \/ \E r \in Reqs : CompletePay(r)
  \/ \E r \in Reqs : CompleteTx(r)
  \/ \E r \in Reqs : CompleteTicket(r)
  \/ \E r \in Reqs : CompleteReturn(r)

SpecGate == InitGate /\ [][NextGate]_vars

\* A well-formed event id that names no published event.
NamesNoEvent(event_id) ==
  /\ _to_oid(event_id) # None
  /\ \/ event_id \notin DOMAIN Events
     \/ Events[event_id].status # "published"

\* A published event and a tier index outside its tier list.
NamesNoTier(event_id, tier_idx) ==
  /\ event_id \in DOMAIN Events
  /\ Events[event_id].status = "published"
  /\ (tier_idx < 0 \/ tier_idx >= Len(Events[event_id].tiers))

\* The event is published and the index is one of its tiers.
Sellable(event_id, tier_idx) ==
  /\ event_id \in DOMAIN Events
  /\ Events[event_id].status = "published"
  /\ tier_idx \in 0 .. Len(Events[event_id].tiers) - 1

StoresUnchanged ==
  UNCHANGED << payments, transactions, tickets, session >>

\* C24: a start or a completion request that names a missing or unpublished
\* event is answered not-found, one that names a tier index out of bounds is
\* answered bad-tier, and neither writes anything; every quote and every
\* payment is for a tier of a published event.
C24_PublishedEventAndTierOnly ==
  [][/\ (call.fn = "gate" /\ ~ call.done /\ call'.done)
          => /\ NamesNoEvent(call.event_id)
                  => (call'.kind = "404" /\ StoresUnchanged)
             /\ NamesNoTier(call.event_id, call.tier_idx)
                  => (call'.kind = "bad_tier" /\ StoresUnchanged)
     /\ \A r \in Reqs \ {1} :
          (req[r].pc = "idle" /\ req'[r].pc # "idle")
            => /\ NamesNoEvent(call.event_id)
                    => (req'[r] = Done(Err("not_found", 404)) /\ StoresUnchanged)
               /\ NamesNoTier(call.event_id, call.tier_idx)
                    => (req'[r] = Done(Err("bad_tier", 400)) /\ StoresUnchanged)
     /\ \A b \in Buyers :
          session'[b] # NoQuote => Sellable(session'[b].event_id, session'[b].tier_idx)
     /\ \A p \in payments' : Sellable(p.event_id, p.tier_index)]_vars

\* Both a start and a completion request for the draft event, or for a tier
\* index out of bounds, have been answered while the other buyer's tickets
\* are in the store.
C24_Witness ==
  /\ call.fn = "gate" /\ call.done /\ call.kind \in {"404", "bad_tier"}
  /\ call.event_id \in {"e1", "e2"}
  /\ \E r \in Reqs \ {1} : AnsweredErr(r, "not_found") \/ AnsweredErr(r, "bad_tier")
  /\ tickets # {}

\* C25: start() tests the sales window before the capacity: a request for a
\* tier whose window is closed is answered window-closed, also when the tier
\* is sold out; and a request answered window-closed or sold-out creates no
\* quote.
C25_WindowBeforeCapacity ==
  [][(call.fn = "gate" /\ ~ call.done /\ call'.done)
       => /\ (/\ Sellable(call.event_id, call.tier_idx)
              /\ ~ _tier_sales_open(Events[call.event_id].tiers[call.tier_idx + 1],
                                    call.now))
               => call'.kind = "window_closed"
          /\ call'.kind \in {"window_closed", "sold_out"} => session' = session]_vars

\* A start request has been answered window-closed for a tier that has no
\* unit left.
C25_Witness ==
  /\ call.fn = "gate" /\ call.done /\ call.kind = "window_closed"
  /\ Available(tickets, << call.event_id, call.tier_idx >>) = 0

\* ------------------------------------------------------------------------
\* _tier_sales_open called on its own
\* ------------------------------------------------------------------------
\* What a sales bound of a tier may hold: nothing, a timestamp, a date-only
\* text, or a text that is no date.
SalesBounds ==
  {NoBound, << "bad" >>} \cup {<< "iso", t >> : t \in Times}
    \cup {<< "date", d >> : d \in 0 .. (MaxNow \div TicksPerDay)}

WindowCalls ==
  {[fn |-> "sales_open", done |-> FALSE,
    tier |-> [Events["e1"].tiers[1] EXCEPT !.sales_start = s, !.sales_end = e],
    now |-> n, open |-> FALSE] :
     s \in SalesBounds, e \in SalesBounds, n \in Times}

InitWindow == InitStores /\ call \in WindowCalls

CallSalesOpen ==
  /\ call.fn = "sales_open" /\ ~ call.done
  /\ call' = [call EXCEPT !.done = TRUE,
                          !.open = _tier_sales_open(call.tier, call.now)]
  /\ UNCHANGED << payments, transactions, tickets, session, req >>

NextWindow == CallSalesOpen

SpecWindow == InitWindow /\ [][NextWindow]_vars

\* The instants of the two bounds of the call's tier, << >> when the bound
\* is missing.
StartBound == _parse_sales_bound(call.tier.sales_start, "start")
EndBound == _parse_sales_bound(call.tier.sales_end, "end")

\* C26: a time is inside the sales window exactly when it is not before the
\* start bound, if there is one, and not after the end bound, if there is
\* one; times equal to a bound are inside.
C26_WindowInclusive ==
  (call.fn = "sales_open" /\ call.done)
    => (call.open <=>
          /\ (StartBound = << >> \/ call.now >= StartBound[1])
          /\ (EndBound = << >> \/ call.now <= EndBound[1]))

\* The window has been found open at a time equal to its end bound, for a
\* tier that has no start bound.
C26_Witness ==
  /\ call.fn = "sales_open" /\ call.done /\ call.open
  /\ call.tier.sales_start = NoBound
  /\ EndBound # << >> /\ call.now = EndBound[1]

\* ------------------------------------------------------------------------
\* Completion requests served one at a time
\* ------------------------------------------------------------------------
\* No completion request is between its availability count and its answer.
NoneInProgress == \A q \in Reqs : req[q].pc \in {"idle", "done"}

\* The first buyer opens the checkout of a tier at any time; a completion
\* request is taken up only when the one before it has been answered.  Any
\* insert may fail.
NextSerial ==
  \/ \E t \in {0, 1} : Start("u1", "e1", t, 1, 1)
  \/ \E r \in Reqs, d \in Deliveries : NoneInProgress /\ CompleteCheck(r, d[1], d[2])
  \/ \E r \in Reqs : CompletePay(r)
  \/ \E r \in Reqs : CompleteTx(r)
  \/ \E r \in Reqs : CompleteTicket(r)
  \/ \E r \in Reqs : CompleteReturn(r)
  \/ \E r \in Reqs : CompleteFail(r)

SpecSerial == Init /\ [][NextSerial]_vars

\* C27: when completion requests are served one at a time, every tier has at
\* most as many tickets as its supply in every reachable state, and at most
\* one request is past its availability count.
C27_SerialNoOversell ==
  /\ \A key \in TierKeys : Sold(key) <= Supply(key)
  /\ Cardinality({r \in Reqs : req[r].pc \in {"pay", "tx", "tickets"}}) <= 1

\* Served one after the other, one request has bought the last unit of a
\* tier and a later one has been refused as sold out.
C27_Witness ==
  /\ \E key \in TierKeys : Sold(key) = Supply(key)
  /\ \E r \in Reqs : AnsweredOk(r)
  /\ \E r \in Reqs : AnsweredErr(r, "sold_out")

\* Every transaction and every ticket of the collections refers to a payment
\* in them, and every ticket's payment has its transaction.
References(pays, txs, tks) ==
  /\ \A x \in txs : \E p \in pays : p._id = x.payment_id
  /\ \A t \in tks :
       /\ \E p \in pays : p._id = t.payment_id
       /\ \E x \in txs : x.payment_id = t.payment_id

\* C28: every step, also one in the middle of a settlement, leads to a
\* state where every Transaction and every Ticket refers to a Payment that
\* exists (and every Ticket's Payment has its Transaction), and no step
\* removes or changes a Payment, a Transaction or a Ticket.
C28_ReferencesExist ==
  [][/\ References(payments', transactions', tickets')
     /\ payments \subseteq payments'
     /\ transactions \subseteq transactions'
     /\ tickets \subseteq tickets']_vars

\* A settlement has stopped on a failed ticket insert after it had written
\* its payment, its transaction and one ticket of two.
C28_Witness ==
  /\ \E r \in Reqs : AnsweredErr(r, "server_error")
  /\ \E p \in payments : p.quantity = 2 /\ Cardinality(TicketsOf(p._id)) = 1

\* The event document without its event-level payout fields.
WithoutEventFields(ev) ==
  [ev EXCEPT !.payout_address = NoAddr, !.organizer_payout_address = NoAddr,
             !.treasury_address = NoAddr, !.usdc_payout = NoAddr,
             !.wallet_address = NoAddr]

\* C29: when the first non-empty event-level payout field is not a valid
\* address, payout resolution returns what it returns for the event without
\* any event-level field, also when a later event-level field holds a valid
\* address.
C29_FirstEventFieldOnly ==
  (/\ call.fn = "find_payout" /\ call.done
   /\ _pick(EventAddrs(call.ev)) # NoAddr
   /\ ~ ValidAddress(_pick(EventAddrs(call.ev))))
  => call.result = _find_payout_address_in(WithoutEventFields(call.ev),
                                           call.orgs, call.usrs)

\* C30: the amount of every Payment and of every Transaction is the tier's
\* price times the quantity as the server computes it, and the price of
\* every Ticket is the tier's unit price, whatever amount the client stated.
C30_StoredAmountsServerComputed ==
  /\ \A p \in payments :
       p.amount = ExpectedAmount(Price(p.event_id, p.tier_index), p.quantity)
  /\ \A x \in transactions :
       x.amount = ExpectedAmount(Price(x.event_id, x.tier_index), x.quantity)
  /\ \A t \in tickets : t.price = Price(t.event_id, t.tier_index)

\* A claim stating one micro-USDC more than the price has been accepted and
\* its payment, transaction and ticket are written.
C30_Witness ==
  \E r \in Reqs :
    /\ req[r].pc = "tickets" /\ req[r].i = 1
    /\ PaidAmount(req[r].data.amountUSDC)
         # ExpectedAmount(Price(req[r].data.eventId, req[r].data.tierIdx),
                          req[r].data.quantity)
    /\ \E p \in payments : p._id = r
    /\ \E x \in transactions : x.payment_id = r

====
